---- MODULE Spec2Model ----
(***************************************************************************)
(* Model of users/auth.go of trackit-server: bcrypt password hashing,      *)
(* JWT issuance (generateToken) and JWT verification (testToken).          *)
(*                                                                         *)
(* The two libraries the file calls are modelled by what they do:          *)
(*   - jwt-go v3 (Parser.ParseWithClaims): split into three segments,      *)
(*     decode header and claims, look the signing method up, call the      *)
(*     Keyfunc, call Claims.Valid(), call Method.Verify;                   *)
(*   - x/crypto/bcrypt: the digest is a function of the cost, the salt and *)
(*     the first 72 bytes of the NUL-terminated password repeated          *)
(*     cyclically (the Blowfish key schedule).                             *)
(* MAC and digest are symbolic terms: two of them are equal exactly when   *)
(* they were computed from the same inputs.                                *)
(*                                                                         *)
(* The functions share no mutable state, so the calls are taken one at a   *)
(* time; the clock never goes back, and may advance between any two steps  *)
(* of a call (by seconds) and between calls (by seconds or by days).       *)
(***************************************************************************)
EXTENDS Integers, Sequences, FiniteSets, TLC

VARIABLES
    now,            \* the wall clock, in Unix seconds (time.Now().Unix())
    ticks,          \* how many times the clock has advanced (bounded)
    ipc,            \* generateToken: position of the call
    iUser,          \* generateToken: the user argument
    iNbf,           \* generateToken: NotBefore, computed from the first time.Now()
    minted,         \* the last token generateToken returned, with its mint times
    vpc,            \* testToken: position of the call
    vTok,           \* testToken: the tokenString argument
    vToken,         \* testToken: the *jwt.Token being built by the parser
    vKey,           \* testToken: the key the Keyfunc handed to the parser
    vNow,           \* testToken: the clock value areClaimsValid read (-1: not read)
    vLookup,        \* testToken: what GetUserWithId returned (or NoLookup)
    vUser,          \* testToken: the returned User
    vErr,           \* testToken: the returned error
    steps,          \* testToken: the steps the call has executed, in order
    lastClaimsFail, \* history: cause and error of the previous claims failure
    bCryptCost,     \* configuration: c.HashDifficulty
    pwRejectsLong,  \* the bcrypt build: does GenerateFromPassword reject > 72 bytes
    pwPassword,     \* getPasswordHash: the password argument
    pwHash,         \* getPasswordHash: the result (hash, err), or NoHash
    pwTried,        \* passwordMatchesHash: its (password, hash) arguments
    pwResult        \* passwordMatchesHash: the returned error

tokVars == <<now, ticks, ipc, iUser, iNbf, minted, vpc, vTok, vToken, vKey, vNow,
             vLookup, vUser, vErr, steps, lastClaimsFail>>
pwVars == <<bCryptCost, pwRejectsLong, pwPassword, pwHash, pwTried, pwResult>>
vars == <<tokVars, pwVars>>

----------------------------------------------------------------------------
(* Bounds of the model *)

\* the clock starts here
Epoch == 1000000
\* the clock advances at most this many times in a behaviour
MaxTicks == 3
\* "immediately": at most this many seconds after the token was signed
Immediately == 2
\* passwords are the byte strings up to this length, and some of 71 to 73 bytes
MaxPwLen == 2
\* the salts bcrypt may draw
MaxSalt == 2

----------------------------------------------------------------------------
(* Configuration and time constants *)

Hour == 3600
Day == 24 * Hour
Grace == 1 * Hour
Lifetime == 60 * 24 * Hour

jwtIssuer == "trackit"
jwtSecret == "auth-secret"
OtherSecret == "other-secret"
OtherIssuer == "other-issuer"

\* how far one advance of the clock goes
TickSteps == {1, 30 * Day, 31 * Day}

Users == {[Id |-> 7], [Id |-> 42]}
ZeroUser == [Id |-> 0]

----------------------------------------------------------------------------
(* Errors: Go error values, by type, jwt-go validation flags and message *)

NoErr == [type |-> "nil", flags |-> {}, msg |-> ""]

ValidationError(flags, msg) == [type |-> "jwt.ValidationError", flags |-> flags, msg |-> msg]

ErrorsNew(msg) == [type |-> "errors.errorString", flags |-> {}, msg |-> msg]

ErrNoRows == ErrorsNew("sql: no rows in result set")
ErrDbDown == ErrorsNew("driver: bad connection")

----------------------------------------------------------------------------
(* The token wire format: header.claims.signature, three encoded segments *)

\* signing methods jwt-go registers, and algorithm names it does not know
HMACAlgs == {"HS256", "HS384", "HS512"}
RegisteredAlgs == HMACAlgs \cup {"none", "RS256"}
NoAlg == ""

\* jwt.GetSigningMethod: the method type registered under a name
SigningMethodOf(alg) ==
    CASE alg \in HMACAlgs -> "SigningMethodHMAC"
      [] alg = "none" -> "signingMethodNone"
      [] alg = "RS256" -> "SigningMethodRSA"
      [] OTHER -> "nil"

\* the header segment: a JSON object with "alg" (and "typ")
Header(alg) == [decodes |-> TRUE, alg |-> alg]
BadHeader == [decodes |-> FALSE, alg |-> NoAlg]

\* json.Marshal of jwtClaims: the struct's own iss, nbf, exp and sub hide the
\* embedded StandardClaims fields of the same JSON names; the remaining
\* StandardClaims fields are zero and omitted
EncodeClaims(c) ==
    [decodes |-> TRUE, iss |-> c.Issuer, nbf |-> c.NotBefore, exp |-> c.Expires,
     sub |-> c.Subject]
BadPayload == [decodes |-> FALSE, iss |-> "", nbf |-> 0, exp |-> 0, sub |-> 0]

\* the embedded jwt.StandardClaims of a decoded jwtClaims: its exp, nbf and iat
\* are never set, because the JSON names belong to the outer fields
ZeroStandardClaims == [ExpiresAt |-> 0, IssuedAt |-> 0, NotBefore |-> 0]

\* json.Unmarshal of the claims segment into &jwtClaims{}
DecodeClaims(p) ==
    [Issuer |-> p.iss, NotBefore |-> p.nbf, Expires |-> p.exp, Subject |-> p.sub,
     StandardClaims |-> ZeroStandardClaims]

\* the MAC of a signing string under a key, as a symbolic term
MAC(alg, key, signingString) == [alg |-> alg, key |-> key, msg |-> signingString]
BadSignature == [alg |-> NoAlg, key |-> "", msg |-> <<>>]

\* Token.SignedString: header.claims joined with the method's signature over them
SignedString(alg, claims, key) ==
    LET signingString == <<Header(alg), EncodeClaims(claims)>>
    IN signingString \o <<MAC(alg, key, signingString)>>

NoToken == <<>>
NoParsed == [Method |-> "nil", alg |-> NoAlg, Claims |-> DecodeClaims(BadPayload), Valid |-> FALSE]
NoKey == ""

----------------------------------------------------------------------------
(* jwt-go: Parser.ParseWithClaims, in the order it works *)

\* first part of ParseWithClaims: split on ".", decode the header and the claims,
\* look the signing method up by the header's alg
ParseUnverified(tokenString) ==
    IF Len(tokenString) # 3
    THEN [err |-> ValidationError({"Malformed"}, "token contains an invalid number of segments"),
          token |-> NoParsed]
    ELSE IF ~tokenString[1].decodes \/ ~tokenString[2].decodes
    THEN [err |-> ValidationError({"Malformed"}, "invalid character"), token |-> NoParsed]
    ELSE IF tokenString[1].alg = NoAlg
    THEN [err |-> ValidationError({"Unverifiable"}, "signing method (alg) is unspecified."),
          token |-> NoParsed]
    ELSE IF SigningMethodOf(tokenString[1].alg) = "nil"
    THEN [err |-> ValidationError({"Unverifiable"}, "signing method (alg) is unavailable."),
          token |-> NoParsed]
    ELSE [err |-> NoErr,
          token |-> [Method |-> SigningMethodOf(tokenString[1].alg),
                     alg |-> tokenString[1].alg,
                     Claims |-> DecodeClaims(tokenString[2]),
                     Valid |-> FALSE]]

\* StandardClaims.Valid, promoted to jwtClaims: a zero exp, iat or nbf is not checked
StandardClaimsValid(std, t) ==
    /\ (std.ExpiresAt = 0 \/ t <= std.ExpiresAt)
    /\ (std.IssuedAt = 0 \/ t >= std.IssuedAt)
    /\ (std.NotBefore = 0 \/ t >= std.NotBefore)

\* SigningMethod.Verify(signingString, signature, key): nil (TRUE) or an error
MethodVerify(method, alg, signingString, signature, key) ==
    CASE method = "SigningMethodHMAC" ->
            key # NoKey /\ signature = MAC(alg, key, signingString)
      [] OTHER -> FALSE  \* none wants its own marker key, RSA a public key

\* second part of ParseWithClaims, after the Keyfunc returned key: Claims.Valid(),
\* then Method.Verify; the flags of both are collected into one ValidationError
ValidateAndVerify(tokenString, token, key, t) ==
    LET claimsOk == StandardClaimsValid(token.Claims.StandardClaims, t)
        sigOk == MethodVerify(token.Method, token.alg, SubSeq(tokenString, 1, 2),
                              tokenString[3], key)
        flags == (IF claimsOk THEN {} ELSE {"Expired"})
                 \cup (IF sigOk THEN {} ELSE {"SignatureInvalid"})
    IN IF flags = {}
       THEN [err |-> NoErr, token |-> [token EXCEPT !.Valid = TRUE]]
       ELSE [err |-> ValidationError(flags, IF sigOk THEN "token is expired"
                                             ELSE "signature is invalid"),
             token |-> token]

----------------------------------------------------------------------------
(* users/auth.go *)

\* getTokenSigningKey without its method check
getTokenSigningKeyAnyMethod(token) == [key |-> jwtSecret, err |-> NoErr]

\* getTokenSigningKey: the key for a token whose method is HMAC, else an error
getTokenSigningKey(token) ==
    IF token.Method # "SigningMethodHMAC"
    THEN [key |-> NoKey, err |-> ErrorsNew("Unexpected signing method")]
    ELSE [key |-> jwtSecret, err |-> NoErr]

\* areClaimsValid without the issuer comparison
areClaimsValidNoIssuer(claims, t) == claims.NotBefore <= t /\ t < claims.Expires

\* areClaimsValid with now <= claims.Expires
areClaimsValidExpiryInclusive(claims, t) ==
    claims.Issuer = jwtIssuer /\ claims.NotBefore <= t /\ t <= claims.Expires

\* areClaimsValid, with t the value of time.Now().Unix() it reads
areClaimsValid(claims, t) ==
    claims.Issuer = jwtIssuer /\ claims.NotBefore <= t /\ t < claims.Expires

\* an error per cause where testToken has one
ClaimsInvalidErrorByCause(claims, t) ==
    ErrorsNew(IF claims.Issuer # jwtIssuer THEN "Issuer is invalid."
              ELSE IF t < claims.NotBefore THEN "Token is not valid yet."
              ELSE "Token is expired.")

\* the error testToken sets when areClaimsValid is false
ClaimsInvalidError(claims, t) == ErrorsNew("Claims are invalid.")

\* generateToken with NotBefore an hour ahead instead of an hour back
NewClaimsNotBeforeAhead(user, t1, t2) ==
    [Issuer |-> jwtIssuer, NotBefore |-> t1 + Grace, Expires |-> t2 + Lifetime,
     Subject |-> user.Id, StandardClaims |-> ZeroStandardClaims]

\* the claims generateToken builds: NotBefore from the first time.Now(), Expires
\* from the second
NewClaims(user, t1, t2) ==
    [Issuer |-> jwtIssuer, NotBefore |-> t1 - Grace, Expires |-> t2 + Lifetime,
     Subject |-> user.Id, StandardClaims |-> ZeroStandardClaims]

\* GetUserWithId(db.Db, userId): the user of that id, or the storage's error
GetUserWithIdResults(userId) ==
    {[id |-> userId, user |-> [Id |-> userId], err |-> NoErr],
     [id |-> userId, user |-> ZeroUser, err |-> ErrNoRows],
     [id |-> userId, user |-> ZeroUser, err |-> ErrDbDown]}
NoLookup == [id |-> 0, user |-> ZeroUser, err |-> ErrorsNew("no lookup")]

\* everything the collaborator may answer
LookupResults == UNION {GetUserWithIdResults(i) : i \in {1, 7, 42}}

NoMint == [tok |-> NoToken, user |-> ZeroUser, t1 |-> 0, t2 |-> 0]
NoFail == [cause |-> "", err |-> NoErr]

----------------------------------------------------------------------------
(* The token strings a caller may present to testToken at clock value t *)

\* validity windows of presented tokens: current, not yet valid, expired (the
\* last with exp = t, the boundary of now < exp)
Windows(t) == {<<t - Hour, t + Hour>>, <<t + Hour, t + 2 * Hour>>, <<t - 2 * Hour, t>>}

PresentedClaims(t) ==
    {[Issuer |-> i, NotBefore |-> w[1], Expires |-> w[2], Subject |-> 42,
      StandardClaims |-> ZeroStandardClaims] :
        i \in {jwtIssuer, OtherIssuer}, w \in Windows(t)}

\* a token with these claims signed under algorithm name a with key k
Forge(a, c, k) == SignedString(a, c, k)

\* tokens signed elsewhere: with the server's key and any of the claims, with
\* another key, and under other algorithm names
SignedTokens(t) ==
    {Forge("HS256", c, jwtSecret) : c \in PresentedClaims(t)}
        \cup {Forge("HS256", c, OtherSecret) :
                c \in {x \in PresentedClaims(t) : x.Issuer = jwtIssuer}}
        \cup {Forge(a, c, k) :
                a \in {"HS512", "none", "RS256", "XX999"},
                c \in {x \in PresentedClaims(t) :
                         x.Issuer = jwtIssuer /\ x.NotBefore < t /\ t < x.Expires},
                k \in {jwtSecret, OtherSecret}}

\* a token altered after signing: another subject, a longer life, another
\* algorithm, no algorithm, a signature stripped or cut
Tampered(tok) ==
    IF tok = NoToken THEN {}
    ELSE {<<tok[1], [tok[2] EXCEPT !.sub = 1], tok[3]>>,
          <<tok[1], [tok[2] EXCEPT !.exp = @ + Lifetime], tok[3]>>,
          <<Header("none"), tok[2], tok[3]>>,
          <<Header("none"), tok[2], BadSignature>>,
          <<Header("HS512"), tok[2], tok[3]>>,
          <<Header(NoAlg), tok[2], tok[3]>>,
          <<tok[1], tok[2], BadSignature>>}

\* strings that are no token: two segments, an undecodable header or claims
Malformed(tok) ==
    IF tok = NoToken THEN {<<BadHeader, BadPayload>>}
    ELSE {<<tok[1], tok[2]>>, <<BadHeader, tok[2], tok[3]>>, <<tok[1], BadPayload, tok[3]>>}

Presented(t, tok) ==
    (IF tok = NoToken THEN {} ELSE {tok})
        \cup SignedTokens(t) \cup Tampered(tok) \cup Malformed(tok)

----------------------------------------------------------------------------
(* x/crypto/bcrypt *)

MinCost == 4
MaxCost == 31
DefaultCost == 10
\* the Blowfish key schedule reads 18 words of 4 bytes from the key, cyclically
BlowfishKeyBytes == 72
\* a bcrypt hash string is 60 bytes; a shorter one is rejected unread
MinHashSize == 59

ErrMismatchedHashAndPassword ==
    ErrorsNew("crypto/bcrypt: hashedPassword is not the hash of the given password")
ErrHashTooShort ==
    ErrorsNew("crypto/bcrypt: hashedSecret too short to be a bcrypted password")
ErrPasswordTooLong == ErrorsNew("bcrypt: password length exceeds 72 bytes")
InvalidCostError == ErrorsNew("crypto/bcrypt: cost is outside allowed range (4,31)")
InvalidHashPrefixError == ErrorsNew("crypto/bcrypt: bcrypt hashes must start with '$'")

\* a string of plain bytes, and the string of a bcrypt hash ($2a$cost$salt digest),
\* whose digest is a symbolic term
Lit(bytes) == [lit |-> TRUE, bytes |-> bytes, cost |-> 0, salt |-> 0, digest |-> <<>>]
HashString(cost, salt, digest) ==
    [lit |-> FALSE, bytes |-> <<>>, cost |-> cost, salt |-> salt, digest |-> digest]

\* the key bcrypt feeds to Blowfish: the password and a NUL byte, repeated to 72 bytes
CyclicKey(password) ==
    LET ckey == Append(password, 0)
    IN [i \in 1..BlowfishKeyBytes |-> ckey[((i - 1) % Len(ckey)) + 1]]

\* bcrypt(password, cost, salt): the digest
Digest(password, cost, salt) == <<CyclicKey(password), cost, salt>>

\* bcrypt.GenerateFromPassword with the salt it drew; rejectsLong is the build's
\* answer to a password of more than 72 bytes
GenerateFromPassword(password, cost, salt, rejectsLong) ==
    LET c == IF cost < MinCost THEN DefaultCost ELSE cost
    IN IF rejectsLong /\ Len(password) > BlowfishKeyBytes
       THEN [hash |-> Lit(<<>>), err |-> ErrPasswordTooLong]
       ELSE IF c > MaxCost
       THEN [hash |-> Lit(<<>>), err |-> InvalidCostError]
       ELSE [hash |-> HashString(c, salt, Digest(password, c, salt)), err |-> NoErr]

\* bcrypt.CompareHashAndPassword: decode the hash, hash the password with its cost
\* and salt, compare the digests
CompareHashAndPassword(hashedPassword, password) ==
    IF hashedPassword.lit
    THEN IF Len(hashedPassword.bytes) < MinHashSize
         THEN ErrHashTooShort
         ELSE InvalidHashPrefixError
    ELSE IF Digest(password, hashedPassword.cost, hashedPassword.salt) = hashedPassword.digest
         THEN NoErr
         ELSE ErrMismatchedHashAndPassword

\* getPasswordHash storing the password as it is
getPasswordHashPlain(password, salt, rejectsLong) == [hash |-> Lit(password), err |-> NoErr]

\* getPasswordHash: string(hash), err
getPasswordHash(password, salt, rejectsLong) ==
    GenerateFromPassword(password, bCryptCost, salt, rejectsLong)

\* passwordMatchesHash
passwordMatchesHash(password, hash) == CompareHashAndPassword(hash, password)

\* the passwords a caller may give
PwBytes == {0, 97, 98}
Pad(n) == [i \in 1..n |-> 97]
ShortPasswords == UNION {[1..n -> PwBytes] : n \in 0..MaxPwLen}
LongPasswords ==
    {Pad(BlowfishKeyBytes - 1), Pad(BlowfishKeyBytes), Append(Pad(BlowfishKeyBytes), 97),
     Append(Pad(BlowfishKeyBytes), 98)}
Passwords == ShortPasswords \cup LongPasswords
Salts == 1..MaxSalt

----------------------------------------------------------------------------
(* Initial state: the configuration is loaded, no call is in progress *)

CostValues == {0, 4, 10, 31, 32}

NoPassword == <<>>
NoHash == [hash |-> [lit |-> TRUE, bytes |-> <<>>, cost |-> 0, salt |-> 0, digest |-> <<>>],
           err |-> ErrorsNew("no call")]
NoTry == [password |-> <<>>, hash |-> NoHash.hash]

TokInit ==
    /\ now = Epoch
    /\ ticks = 0
    /\ ipc = "idle"
    /\ iUser = ZeroUser
    /\ iNbf = 0
    /\ minted = NoMint
    /\ vpc = "idle"
    /\ vTok = NoToken
    /\ vToken = NoParsed
    /\ vKey = NoKey
    /\ vNow = -1
    /\ vLookup = NoLookup
    /\ vUser = ZeroUser
    /\ vErr = NoErr
    /\ steps = <<>>
    /\ lastClaimsFail = NoFail

PwIdle ==
    /\ pwPassword = NoPassword
    /\ pwHash = NoHash
    /\ pwTried = NoTry
    /\ pwResult = NoErr

Init ==
    /\ TokInit
    /\ bCryptCost = 10
    /\ pwRejectsLong = FALSE
    /\ PwIdle

----------------------------------------------------------------------------
(* The clock *)

\* a call in progress sees the clock advance by seconds, not by days
Tick(d) ==
    /\ ticks < MaxTicks
    /\ (ipc # "idle" \/ vpc # "idle") => d = 1
    /\ now' = now + d
    /\ ticks' = ticks + 1
    /\ UNCHANGED <<ipc, iUser, iNbf, minted, vpc, vTok, vToken, vKey, vNow, vLookup,
                   vUser, vErr, steps, lastClaimsFail, pwVars>>

----------------------------------------------------------------------------
(* generateToken(user) *)

\* the NotBefore field: the first time.Now()
GenerateTokenNotBefore(user) ==
    /\ ipc = "idle"
    /\ vpc = "idle"
    /\ ipc' = "notBefore"
    /\ iUser' = user
    /\ iNbf' = now
    /\ UNCHANGED <<now, ticks, minted, vpc, vTok, vToken, vKey, vNow, vLookup, vUser,
                   vErr, steps, lastClaimsFail, pwVars>>

\* the Expires field (the second time.Now()), then token.SignedString(jwtSecret)
GenerateTokenSign ==
    /\ ipc = "notBefore"
    /\ minted' = [tok |-> SignedString("HS256", NewClaims(iUser, iNbf, now), jwtSecret),
                  user |-> iUser, t1 |-> iNbf, t2 |-> now]
    /\ ipc' = "idle"
    /\ iUser' = ZeroUser
    /\ iNbf' = 0
    /\ UNCHANGED <<now, ticks, vpc, vTok, vToken, vKey, vNow, vLookup, vUser, vErr,
                   steps, lastClaimsFail, pwVars>>

----------------------------------------------------------------------------
(* testToken(tokenString) *)

\* why areClaimsValid is false of these claims at t
Causes(claims, t) ==
    (IF claims.Issuer # jwtIssuer THEN {"issuer"} ELSE {})
        \cup (IF t < claims.NotBefore THEN {"notYetValid"} ELSE {})
        \cup (IF t >= claims.Expires THEN {"expired"} ELSE {})

\* the call ends with this user and error
Return(user, err) ==
    /\ vpc' = "done"
    /\ vUser' = user
    /\ vErr' = err

\* jwt.ParseWithClaims, first part: split, decode, method lookup
TestTokenParse(tokenString) ==
    /\ vpc = "idle"
    /\ ipc = "idle"
    /\ vTok' = tokenString
    /\ steps' = <<"parse">>
    /\ LET r == ParseUnverified(tokenString)
       IN IF r.err # NoErr
          THEN Return(ZeroUser, r.err) /\ vToken' = NoParsed
          ELSE vpc' = "parsed" /\ vToken' = r.token /\ UNCHANGED <<vUser, vErr>>
    /\ UNCHANGED <<now, ticks, ipc, iUser, iNbf, minted, vKey, vNow, vLookup,
                   lastClaimsFail, pwVars>>

\* jwt.ParseWithClaims calls the Keyfunc, getTokenSigningKey
TestTokenKeyfunc ==
    /\ vpc = "parsed"
    /\ steps' = Append(steps, "algorithm")
    /\ LET r == getTokenSigningKey(vToken)
       IN /\ vKey' = r.key
          /\ IF r.err # NoErr
             THEN Return(ZeroUser, ValidationError({"Unverifiable"}, r.err.msg))
             ELSE vpc' = "keyed" /\ UNCHANGED <<vUser, vErr>>
    /\ UNCHANGED <<now, ticks, ipc, iUser, iNbf, minted, vTok, vToken, vNow, vLookup,
                   lastClaimsFail, pwVars>>

\* testToken going on to the claims whatever error ParseWithClaims returned
TestTokenVerifyIgnoringError ==
    /\ vpc = "keyed"
    /\ steps' = Append(steps, "signature")
    /\ vToken' = ValidateAndVerify(vTok, vToken, vKey, now).token
    /\ vpc' = "verified"
    /\ UNCHANGED <<now, ticks, ipc, iUser, iNbf, minted, vTok, vKey, vNow, vLookup,
                   vUser, vErr, lastClaimsFail, pwVars>>

\* jwt.ParseWithClaims, last part: Claims.Valid() and Method.Verify with the key
TestTokenVerify ==
    /\ vpc = "keyed"
    /\ steps' = Append(steps, "signature")
    /\ LET r == ValidateAndVerify(vTok, vToken, vKey, now)
       IN /\ vToken' = r.token
          /\ IF r.err # NoErr
             THEN Return(ZeroUser, r.err)
             ELSE vpc' = "verified" /\ UNCHANGED <<vUser, vErr>>
    /\ UNCHANGED <<now, ticks, ipc, iUser, iNbf, minted, vTok, vKey, vNow, vLookup,
                   lastClaimsFail, pwVars>>

\* err == nil: the type assertion and token.Valid, then areClaimsValid
TestTokenClaims ==
    /\ vpc = "verified"
    /\ IF ~vToken.Valid
       THEN /\ Return(ZeroUser, ErrorsNew("Failed to read token."))
            /\ UNCHANGED <<steps, vNow>>
       ELSE /\ steps' = Append(steps, "claims")
            /\ vNow' = now
            /\ IF areClaimsValid(vToken.Claims, now)
               THEN vpc' = "claimsValid" /\ UNCHANGED <<vUser, vErr>>
               ELSE Return(ZeroUser, ClaimsInvalidError(vToken.Claims, now))
    /\ UNCHANGED <<now, ticks, ipc, iUser, iNbf, minted, vTok, vToken, vKey, vLookup,
                   lastClaimsFail, pwVars>>

\* testToken asking the collaborator a second time when it fails
TestTokenLookupRetrying(result) ==
    /\ vpc = "claimsValid"
    /\ result \in GetUserWithIdResults(vToken.Claims.Subject)
    /\ steps' = IF result.err # NoErr THEN steps \o <<"lookup", "lookup">>
                ELSE Append(steps, "lookup")
    /\ vLookup' = result
    /\ vpc' = "done"
    /\ vUser' = result.user
    /\ vErr' = result.err
    /\ UNCHANGED <<now, ticks, ipc, iUser, iNbf, minted, vTok, vToken, vKey, vNow,
                   lastClaimsFail, pwVars>>

\* userId := claims.Subject; user, err = GetUserWithId(db.Db, userId), which
\* answers with result
TestTokenLookup(result) ==
    /\ vpc = "claimsValid"
    /\ result \in GetUserWithIdResults(vToken.Claims.Subject)
    /\ steps' = Append(steps, "lookup")
    /\ vLookup' = result
    /\ Return(result.user, result.err)
    /\ UNCHANGED <<now, ticks, ipc, iUser, iNbf, minted, vTok, vToken, vKey, vNow,
                   lastClaimsFail, pwVars>>

\* return user, err: the call is over; a claims failure with one cause is kept
\* as history
TestTokenReturn ==
    /\ vpc = "done"
    /\ lastClaimsFail' =
          IF vNow # -1 /\ Cardinality(Causes(vToken.Claims, vNow)) = 1
          THEN [cause |-> CHOOSE c \in Causes(vToken.Claims, vNow) : TRUE, err |-> vErr]
          ELSE lastClaimsFail
    /\ vpc' = "idle"
    /\ vTok' = NoToken
    /\ vToken' = NoParsed
    /\ vKey' = NoKey
    /\ vNow' = -1
    /\ vLookup' = NoLookup
    /\ vUser' = ZeroUser
    /\ vErr' = NoErr
    /\ steps' = <<>>
    /\ UNCHANGED <<now, ticks, ipc, iUser, iNbf, minted, pwVars>>

Next ==
    \/ \E d \in TickSteps : Tick(d)
    \/ \E u \in Users : GenerateTokenNotBefore(u)
    \/ GenerateTokenSign
    \/ \E tok \in Presented(now, minted.tok) : TestTokenParse(tok)
    \/ TestTokenKeyfunc
    \/ TestTokenVerify
    \/ TestTokenClaims
    \/ \E r \in LookupResults : TestTokenLookup(r)
    \/ TestTokenReturn

Spec == Init /\ [][Next]_vars

----------------------------------------------------------------------------
(* The password hasher, on its own *)

PwInit ==
    /\ TokInit
    /\ bCryptCost \in CostValues
    /\ pwRejectsLong \in BOOLEAN
    /\ PwIdle

\* hash, err := getPasswordHash(password)
GetPasswordHash(password, salt) ==
    /\ pwHash = NoHash
    /\ pwPassword' = password
    /\ pwHash' = getPasswordHash(password, salt, pwRejectsLong)
    /\ pwTried' = NoTry
    /\ pwResult' = NoErr
    /\ UNCHANGED <<tokVars, bCryptCost, pwRejectsLong>>

\* the hash strings a caller may hold: the stored hash, the stored password itself,
\* a string that is no hash
StoredStrings == {pwHash.hash, Lit(pwPassword), Lit(<<120>>)}

\* err := passwordMatchesHash(password, hash)
PasswordMatchesHash(password, hash) ==
    /\ pwHash # NoHash
    /\ pwTried = NoTry
    /\ pwTried' = [password |-> password, hash |-> hash]
    /\ pwResult' = passwordMatchesHash(password, hash)
    /\ UNCHANGED <<tokVars, bCryptCost, pwRejectsLong, pwPassword, pwHash>>

\* both calls have returned; the next pair starts afresh
PwReturn ==
    /\ pwTried # NoTry
    /\ pwPassword' = NoPassword
    /\ pwHash' = NoHash
    /\ pwTried' = NoTry
    /\ pwResult' = NoErr
    /\ UNCHANGED <<tokVars, bCryptCost, pwRejectsLong>>

PwNext ==
    \/ \E p \in Passwords, s \in Salts : GetPasswordHash(p, s)
    \/ \E p \in Passwords, h \in StoredStrings : PasswordMatchesHash(p, h)
    \/ PwReturn

PwSpec == PwInit /\ [][PwNext]_vars

----------------------------------------------------------------------------
(* What a token string is, read off the string itself *)

WellFormed(tok) == Len(tok) = 3 /\ tok[1].decodes /\ tok[2].decodes
DeclaresHMAC(tok) == tok[1].alg \in HMACAlgs
SignedWithSecret(tok) == tok[3] = MAC(tok[1].alg, jwtSecret, <<tok[1], tok[2]>>)
CorrectlySigned(tok) == WellFormed(tok) /\ DeclaresHMAC(tok) /\ SignedWithSecret(tok)

Done == vpc = "done"
Authenticated == Done /\ vErr = NoErr
LookupCalled == vLookup # NoLookup

InvalidSignatureError == ValidationError({"SignatureInvalid"}, "signature is invalid")
IsUnexpectedAlgorithmError(err) ==
    err.type = "jwt.ValidationError" /\ err.flags = {"Unverifiable"}
FullOrder == <<"parse", "algorithm", "signature", "claims", "lookup">>

----------------------------------------------------------------------------
(* C1: testToken returns a nil error exactly when the token parsed, declared
   an HMAC algorithm, carries the MAC of header+claims under jwtSecret, has
   issuer jwtIssuer, satisfies notBefore <= now < expiresAt at the clock value
   areClaimsValid read, and the lookup for the token's subject succeeded; the
   user returned is then the one the lookup returned for that subject. *)
C1_AuthenticatedIffAllChecks ==
    Done =>
        LET allHeld ==
                /\ CorrectlySigned(vTok)
                /\ vTok[2].iss = jwtIssuer
                /\ vNow # -1
                /\ vTok[2].nbf <= vNow
                /\ vNow < vTok[2].exp
                /\ LookupCalled
                /\ vLookup.id = vTok[2].sub
                /\ vLookup.err = NoErr
        IN /\ (vErr = NoErr) <=> allHeld
           /\ (vErr = NoErr) => vUser = vLookup.user

C1_Witness ==
    /\ Authenticated
    /\ vTok # minted.tok
    /\ vUser = [Id |-> 42]

(* C2: the token generateToken returned for a user, verified immediately (the
   call over at most Immediately seconds after signing) with the lookup not
   failing, is accepted and resolves to that user's id. *)
C2_RoundTrip ==
    (/\ Done
     /\ minted # NoMint
     /\ vTok = minted.tok
     /\ now - minted.t2 <= Immediately
     /\ (LookupCalled => vLookup.err = NoErr))
        => (vErr = NoErr /\ vUser.Id = minted.user.Id)

C2_Witness ==
    /\ Authenticated
    /\ vTok = minted.tok
    /\ now - minted.t2 <= Immediately
    /\ vUser = [Id |-> 7]

(* C3, as amended: a token issued at T (the clock value Expires was computed
   from) is accepted at T + 30 days and resolves to its user when the lookup
   succeeds, and is refused at T + 61 days; any correctly signed token
   verified at now >= expiresAt is refused with the error "Claims are
   invalid.", which names no cause, without a lookup; no expired token is
   ever accepted. *)
C3_ExpiryOverTime ==
    Done =>
        /\ CorrectlySigned(vTok) => vNow # -1
        /\ (CorrectlySigned(vTok) /\ vNow >= vTok[2].exp) =>
               (vErr = ErrorsNew("Claims are invalid.") /\ ~LookupCalled)
        /\ vErr = NoErr => (vNow # -1 /\ vNow < vTok[2].exp)
        /\ (minted # NoMint /\ vTok = minted.tok) =>
               /\ (vNow = minted.t2 + 30 * Day /\ vLookup.err = NoErr) =>
                      (vErr = NoErr /\ vUser.Id = minted.user.Id)
               /\ (vNow = minted.t2 + 61 * Day) =>
                      vErr = ErrorsNew("Claims are invalid.")

C3_Witness ==
    /\ Done
    /\ minted # NoMint
    /\ vTok = minted.tok
    /\ vNow = minted.t2 + 61 * Day
    /\ vErr = ErrorsNew("Claims are invalid.")

(* C3 as stated: the error returned at T + 61 days is classified as an expiry,
   that is, it is not the error returned for a claims failure of another
   cause. *)
C3_ExpiryClassified ==
    (/\ Done
     /\ minted # NoMint
     /\ vTok = minted.tok
     /\ vNow = minted.t2 + 61 * Day
     /\ lastClaimsFail.cause \in {"issuer", "notYetValid"})
        => vErr # lastClaimsFail.err

(* C4: a well-formed token declaring an HMAC algorithm whose signature is not
   the MAC of its header and claims under jwtSecret is refused with the
   signature error whatever its claims, and the lookup is not called. *)
C4_BadSignatureRefused ==
    (Done /\ WellFormed(vTok) /\ DeclaresHMAC(vTok) /\ ~SignedWithSecret(vTok))
        => /\ vErr = InvalidSignatureError
           /\ ~LookupCalled
           /\ steps = SubSeq(FullOrder, 1, 3)

C4_Witness ==
    /\ Done
    /\ WellFormed(vTok)
    /\ vTok[1].alg = "HS256"
    /\ vTok[3] = MAC("HS256", OtherSecret, <<vTok[1], vTok[2]>>)
    /\ vTok[2].iss = jwtIssuer /\ vTok[2].nbf <= now /\ now < vTok[2].exp
    /\ vErr = InvalidSignatureError

(* C5: a token whose declared algorithm is not an HMAC one ("none" included)
   is refused as unverifiable, no signature is compared for it, the secret is
   never handed to the parser for it, and it is never accepted. *)
C5_AlgorithmSubstitution ==
    (vpc # "idle" /\ WellFormed(vTok) /\ ~DeclaresHMAC(vTok))
        => /\ vKey = NoKey
           /\ \A i \in 1..Len(steps) : steps[i] \in {"parse", "algorithm"}
           /\ Done => /\ IsUnexpectedAlgorithmError(vErr)
                      /\ ~LookupCalled
                      /\ (vTok[1].alg \in RegisteredAlgs =>
                             vErr.msg = "Unexpected signing method")

C5_Witness ==
    /\ Done
    /\ WellFormed(vTok)
    /\ vTok[1].alg = "none"
    /\ vTok[3] = BadSignature
    /\ IsUnexpectedAlgorithmError(vErr)

(* C6 as stated: two verifications of correctly signed tokens that fail the
   claims check for different causes do not return the same error. *)
C6_CausesDistinguished ==
    (/\ Done
     /\ CorrectlySigned(vTok)
     /\ vNow # -1
     /\ Cardinality(Causes(vToken.Claims, vNow)) = 1
     /\ lastClaimsFail # NoFail
     /\ lastClaimsFail.cause \notin Causes(vToken.Claims, vNow))
        => vErr # lastClaimsFail.err

(* C6, as amended: a correctly signed token that fails the claims check is
   refused with the one error "Claims are invalid." whether the cause is the
   issuer, notBefore or expiresAt, so two such failures of different causes
   return the same error; that error differs from the parse, algorithm and
   signature errors and from the lookup's errors. *)
C6_OneClaimsError ==
    (Done /\ CorrectlySigned(vTok) /\ vNow # -1 /\ Causes(vToken.Claims, vNow) # {})
        => /\ vErr = ErrorsNew("Claims are invalid.")
           /\ vErr.type # "jwt.ValidationError"
           /\ vErr \notin {ErrNoRows, ErrDbDown}
           /\ lastClaimsFail # NoFail => vErr = lastClaimsFail.err

C6_Witness ==
    /\ Done
    /\ CorrectlySigned(vTok)
    /\ vNow # -1
    /\ Causes(vToken.Claims, vNow) = {"expired"}
    /\ lastClaimsFail.cause = "issuer"
    /\ vErr = lastClaimsFail.err

(* C7: for a non-empty password whose hashing succeeded, passwordMatchesHash
   of the password and its hash returns nil, and the hash string is not the
   password. *)
C7_PasswordRoundTrip ==
    (pwPassword # NoPassword /\ pwHash # NoHash /\ pwHash.err = NoErr)
        => /\ pwHash.hash # Lit(pwPassword)
           /\ (pwTried = [password |-> pwPassword, hash |-> pwHash.hash]
                  => pwResult = NoErr)

C7_Witness ==
    /\ pwPassword = <<97, 98>>
    /\ pwHash.err = NoErr
    /\ pwTried = [password |-> pwPassword, hash |-> pwHash.hash]
    /\ pwResult = NoErr

(* C8 as stated: a password other than the one that was hashed is refused with
   the mismatch error. *)
C8_OtherPasswordRefused ==
    (/\ pwHash # NoHash
     /\ pwHash.err = NoErr
     /\ pwTried # NoTry
     /\ pwTried.hash = pwHash.hash
     /\ pwTried.password # pwPassword)
        => pwResult = ErrMismatchedHashAndPassword

(* C9 as stated: the claims of a minted token are computed from one mint time:
   issuer jwtIssuer, subject the user's id, notBefore = T - 1 hour and
   expiresAt = T + 60 days, so expiresAt - notBefore is 61 days. *)
C9_OneMintTime ==
    minted # NoMint =>
        /\ minted.tok[2].iss = jwtIssuer
        /\ minted.tok[2].sub = minted.user.Id
        /\ minted.tok[2].nbf < minted.tok[2].exp
        /\ minted.tok[2].exp - minted.tok[2].nbf = Grace + Lifetime
        /\ \E t \in {minted.t1, minted.t2} :
               minted.tok[2].nbf = t - Grace /\ minted.tok[2].exp = t + Lifetime

(* C10: in one call of testToken the steps run in the order parse, algorithm,
   signature, claims, lookup; the call ends at the first step that fails with
   that step's error; the lookup runs at most once and only after the four
   others passed; a failed lookup's error is returned as it is. *)
C10_StepOrder ==
    /\ Len(steps) <= Len(FullOrder)
    /\ steps = SubSeq(FullOrder, 1, Len(steps))
    /\ Cardinality({i \in 1..Len(steps) : steps[i] = "lookup"}) <= 1
    /\ LookupCalled <=> (Len(steps) = 5)
    /\ Done =>
          LET firstFailing ==
                  IF ~WellFormed(vTok) \/ SigningMethodOf(vTok[1].alg) = "nil" THEN 1
                  ELSE IF ~DeclaresHMAC(vTok) THEN 2
                  ELSE IF ~SignedWithSecret(vTok) THEN 3
                  ELSE IF ~areClaimsValid(vToken.Claims, vNow) THEN 4
                  ELSE 5
          IN /\ Len(steps) = firstFailing
             /\ (firstFailing = 1 => vErr.type = "jwt.ValidationError"
                                     /\ vErr.flags \in {{"Malformed"}, {"Unverifiable"}})
             /\ (firstFailing = 2 => IsUnexpectedAlgorithmError(vErr))
             /\ (firstFailing = 3 => vErr = InvalidSignatureError)
             /\ (firstFailing = 4 => vErr = ErrorsNew("Claims are invalid."))
             /\ (firstFailing = 5 => vErr = vLookup.err /\ vUser = vLookup.user)

C10_Witness ==
    /\ Done
    /\ steps = FullOrder
    /\ vLookup.err = ErrDbDown
    /\ vErr = ErrDbDown

====
